---- MODULE Spec2Model ----
(***************************************************************************)
(* fincore: count pages of file contents in core (misc-utils/fincore.c).   *)
(*                                                                         *)
(* The model follows main()'s loop over the file arguments, fincore_name,  *)
(* fincore_fd and do_mincore statement by statement.  The kernel (open,    *)
(* fstat, posix_fadvise, mmap, mincore, move_pages) is the environment:    *)
(* every call may succeed or fail, and what it reports is chosen freely.   *)
(* Sizes are in bytes; the page size and the window size are scaled down.  *)
(*                                                                         *)
(* A second specification, SpecFilters, models lsfd's early filters        *)
(* (lsfd-cmd/early-filter.c): the list of pid and file-path filters, the   *)
(* sorted pid array made by early_filters_optimize, and the two queries.   *)
(***************************************************************************)
EXTENDS Integers, Sequences, FiniteSets, TLC

\* ---------------------------------------------------------------- bounds
\* the number of file arguments of a run
MaxFiles == 2
\* the bytes of all the files of a run together
MaxTotalSize == 5
\* the number of filters added to an early_filters
MaxFilters == 3
\* the largest pid of a pid filter
MaxPid == 2
\* the length of the longest path of a file-path filter
MaxPathLen == 1

\* ------------------------------------------------------ program constants
\* getpagesize(), scaled down (fincore.c:368)
PageSize == 2
\* #define N_PAGES_IN_WINDOW, scaled down from 32 * 1024 (fincore.c:56)
N_PAGES_IN_WINDOW == 2
\* <numa.h> NUMA_NUM_NODES, scaled down (fincore.c:480)
NUMA_NUM_NODES == 2
EXIT_SUCCESS == 0
EXIT_FAILURE == 1
EINVAL == 22
PROT_NONE == 0
PROT_READ == 1

\* errno values the failing system calls may leave: EPERM, ENOMEM
Errnos == {1, 12}
\* what posix_fadvise(3) returns: 0, or an error number (EBADF, EINVAL)
FadviseReturns == {0, 9, 22}
\* a byte of the mincore(2) vector: bit 0 is residency, the other bits are
\* undefined
VecBytes == {0, 1, 2, 3}
\* a per-page status of move_pages(2): a node, or a negative errno (-ENOENT)
PageStatuses == (0 .. NUMA_NUM_NODES - 1) \cup {-2}

Nodes == 0 .. NUMA_NUM_NODES - 1
\* a page address is <<mapping, byte offset in the mapping>>
NULL == <<0, 0>>

VARIABLES
    argc,                  \* number of file arguments
    optind,                \* index of the argument being processed
    collect_nodedst,       \* COL_NODEDST was requested (and HAVE_NUMA)
    drop,                  \* ctl.drop
    rc,                    \* main's rc, the exit status
    pc,                    \* the statement about to run
    fd,                    \* number of descriptors open()ed and not closed
    sb,                    \* struct stat filled by fstat: [dir, st_size]
    name_rc,               \* fincore_name's rc
    fd_rc,                 \* fincore_fd's rc
    file_offset,           \* fincore_fd
    len,                   \* fincore_fd
    window,                \* fincore_fd: address returned by mmap
    count_incore,          \* main's count_incore of the current file
    original_count_incore, \* do_mincore
    nodes_counter,         \* main's nodes_counter of the current file
    vec,                   \* do_mincore's static vec[]
    incore_pages,          \* do_mincore's static incore_pages[]
    status,                \* do_mincore's static status[]
    mapped,                \* the mappings of the process
    output,                \* lines of ctl.tb, in order
    warnings,              \* what warn() wrote, in order
    \* ---- what the kernel did (the environment's history)
    failures,              \* the calls that failed: [file, call]
    bytes_left,            \* MaxTotalSize less the sizes fstat reported
    windows,               \* the mmap requests of the current file
    k_dropfail,            \* posix_fadvise failed on the current file
    k_resident,            \* pages the kernel reported resident, this file
    k_incore,              \* the file's page numbers it reported resident
    k_negative,            \* resident pages given a negative status, this file
    k_tally,               \* nodes the kernel reported, this file
    k_pages,               \* pages mincore reported resident, this window
    k_touched,             \* addresses read by do_mincore, this window
    k_batch,               \* the batches given to move_pages, this window
    \* ---- struct early_filters (lsfd-cmd/early-filter.c)
    filters,               \* the list of struct early_filter, in order
    n_pid_filters,
    n_file_path_filters,
    pids,                  \* [null, mem]: NULL, or an array from xmalloc
    ef_ret,                \* what the last early_filters_apply_* returned
    k_optimized            \* early_filters_optimize ran after the last add

vars == <<argc, optind, collect_nodedst, drop, rc, pc, fd, sb, name_rc, fd_rc,
          file_offset, len, window, count_incore, original_count_incore,
          nodes_counter, vec, incore_pages, status, mapped, output, warnings,
          failures, bytes_left, windows, k_dropfail, k_resident, k_incore,
          k_negative, k_tally, k_pages, k_touched, k_batch, filters,
          n_pid_filters, n_file_path_filters, pids, ef_ret, k_optimized>>

\* the groups of variables an action leaves alone
cfgVars == <<argc, collect_nodedst, drop>>
scratchVars == <<vec, incore_pages, status>>
countVars == <<count_incore, original_count_incore, nodes_counter>>
kernelVars == <<k_dropfail, k_resident, k_incore, k_negative, k_tally>>
fdVars == <<file_offset, len, window>>
windowVars == <<k_pages, k_touched, k_batch>>
efVars == <<filters, n_pid_filters, n_file_path_filters, pids, ef_ret,
            k_optimized>>
fincoreVars == <<argc, optind, collect_nodedst, drop, rc, pc, fd, sb, name_rc,
                 fd_rc, file_offset, len, window, count_incore,
                 original_count_incore, nodes_counter, vec, incore_pages,
                 status, mapped, output, warnings, failures, bytes_left,
                 windows, k_dropfail, k_resident, k_incore, k_negative,
                 k_tally, k_pages, k_touched, k_batch>>

ZeroNodes == [i \in Nodes |-> 0]

\* a window of one page more than the buffers hold
window_size_OnePageMore == (N_PAGES_IN_WINDOW + 1) * PageSize

\* window_size = N_PAGES_IN_WINDOW * ctl->pagesize
window_size == N_PAGES_IN_WINDOW * PageSize

\* warn(): one message naming the file and the call
Warn(call) == Append(warnings, [file |-> optind, call |-> call])

\* the kernel failed this call on the current file
Failed(call) == failures \cup {[file |-> optind, call |-> call]}

Init ==
    /\ argc \in 1 .. MaxFiles
    /\ optind = 1
    /\ collect_nodedst \in BOOLEAN
    /\ drop \in BOOLEAN
    /\ rc = EXIT_SUCCESS
    /\ pc = "main"
    /\ fd = 0
    /\ sb = [dir |-> FALSE, st_size |-> 0]
    /\ name_rc = 0
    /\ fd_rc = 0
    /\ file_offset = 0
    /\ len = 0
    /\ window = 0
    /\ count_incore = 0
    /\ original_count_incore = 0
    /\ nodes_counter = ZeroNodes
    /\ vec = [i \in 0 .. N_PAGES_IN_WINDOW - 1 |-> 0]
    /\ incore_pages = [i \in 0 .. N_PAGES_IN_WINDOW - 1 |-> NULL]
    /\ status = [i \in 0 .. N_PAGES_IN_WINDOW - 1 |-> 0]
    /\ mapped = {}
    /\ output = <<>>
    /\ warnings = <<>>
    /\ failures = {}
    /\ bytes_left = MaxTotalSize
    /\ windows = <<>>
    /\ k_dropfail = FALSE
    /\ k_resident = 0
    /\ k_incore = {}
    /\ k_negative = 0
    /\ k_tally = ZeroNodes
    /\ k_pages = {}
    /\ k_touched = <<>>
    /\ k_batch = <<>>
    /\ filters = <<>>
    /\ n_pid_filters = 0
    /\ n_file_path_filters = 0
    /\ pids = [null |-> TRUE, mem |-> <<>>]
    /\ ef_ret = [call |-> "none", pid |-> 0, file_path |-> <<>>,
                 ret |-> FALSE, crashed |-> FALSE]
    /\ k_optimized = FALSE

\* ------------------------------------------------------------------ main
\* MainNextFile with count_incore declared outside the loop: not reset
MainNextFile_NoReset ==
    /\ pc = "main"
    /\ optind <= argc
    /\ nodes_counter' = ZeroNodes
    /\ windows' = <<>>
    /\ k_dropfail' = FALSE
    /\ k_resident' = 0
    /\ k_incore' = {}
    /\ k_negative' = 0
    /\ k_tally' = ZeroNodes
    /\ pc' = "open"
    /\ UNCHANGED <<cfgVars, efVars, windowVars, bytes_left, optind, rc, fd,
                   sb, name_rc, fd_rc, fdVars, count_incore,
                   original_count_incore, scratchVars, mapped, output,
                   warnings, failures>>

\* for (; optind < argc; optind++) { count_incore = 0; nodes_counter = {0,};
MainNextFile ==
    /\ pc = "main"
    /\ optind <= argc
    /\ count_incore' = 0
    /\ nodes_counter' = ZeroNodes
    /\ windows' = <<>>
    /\ k_dropfail' = FALSE
    /\ k_resident' = 0
    /\ k_incore' = {}
    /\ k_negative' = 0
    /\ k_tally' = ZeroNodes
    /\ pc' = "open"
    /\ UNCHANGED <<cfgVars, efVars, windowVars, bytes_left, optind, rc, fd,
                   sb, name_rc, fd_rc, fdVars, original_count_incore,
                   scratchVars, mapped, output, warnings, failures>>

\* scols_print_table(); return rc;
MainReturn ==
    /\ pc = "main"
    /\ optind > argc
    /\ pc' = "done"
    /\ UNCHANGED <<cfgVars, efVars, windowVars, bytes_left, optind, rc, fd,
                   sb, name_rc, fd_rc, fdVars, countVars, scratchVars,
                   mapped, output, warnings, failures, windows, kernelVars>>

\* ---------------------------------------------------------- fincore_name
\* OpenFail returning errno instead of -errno
OpenFail_PositiveErrno ==
    /\ pc = "open"
    /\ \E e \in Errnos : name_rc' = e
    /\ warnings' = Warn("open")
    /\ failures' = Failed("open")
    /\ pc' = "switch"
    /\ UNCHANGED <<cfgVars, efVars, windowVars, bytes_left, optind, rc, fd,
                   sb, fd_rc, fdVars, countVars, scratchVars, mapped, output,
                   windows, kernelVars>>

\* if ((fd = open (name, O_RDONLY)) < 0) { warn(); return -errno; }
OpenFail ==
    /\ pc = "open"
    /\ \E e \in Errnos : name_rc' = -e
    /\ warnings' = Warn("open")
    /\ failures' = Failed("open")
    /\ pc' = "switch"
    /\ UNCHANGED <<cfgVars, efVars, windowVars, bytes_left, optind, rc, fd,
                   sb, fd_rc, fdVars, countVars, scratchVars, mapped, output,
                   windows, kernelVars>>

\* int rc = 0; fd = open (name, O_RDONLY) succeeded
OpenOk ==
    /\ pc = "open"
    /\ fd' = fd + 1
    /\ name_rc' = 0
    /\ pc' = "fstat"
    /\ UNCHANGED <<cfgVars, efVars, windowVars, bytes_left, optind, rc, sb,
                   fd_rc, fdVars, countVars, scratchVars, mapped, output,
                   warnings, failures, windows, kernelVars>>

\* if (fstat (fd, sb) < 0) { warn(); close (fd); return -errno; }
FstatFail ==
    /\ pc = "fstat"
    /\ \E e \in Errnos : name_rc' = -e
    /\ warnings' = Warn("fstat")
    /\ failures' = Failed("fstat")
    /\ fd' = fd - 1
    /\ pc' = "switch"
    /\ UNCHANGED <<cfgVars, efVars, windowVars, bytes_left, optind, rc, sb,
                   fd_rc, fdVars, countVars, scratchVars, mapped, output,
                   windows, kernelVars>>

\* what fstat may report: a directory, or a file of some size
StatResults ==
    [dir : {FALSE}, st_size : 0 .. bytes_left]
        \cup [dir : {TRUE}, st_size : {0, PageSize} \cap (0 .. bytes_left)]

\* fstat (fd, sb) succeeded
FstatOk ==
    /\ pc = "fstat"
    /\ sb' \in StatResults
    /\ bytes_left' = bytes_left - sb'.st_size
    /\ pc' = "classify"
    /\ UNCHANGED <<cfgVars, efVars, windowVars, optind, rc, fd, name_rc,
                   fd_rc, fdVars, countVars, scratchVars, mapped, output,
                   warnings, failures, windows, kernelVars>>

\* Classify ignoring an empty file the way it ignores a directory
Classify_EmptyIgnored ==
    /\ pc = "classify"
    /\ IF sb.dir \/ sb.st_size = 0
         THEN name_rc' = 1 /\ pc' = "close"
         ELSE /\ name_rc' = name_rc
              /\ pc' = IF drop THEN "fadvise" ELSE "fd_enter"
    /\ UNCHANGED <<cfgVars, efVars, windowVars, bytes_left, optind, rc, fd,
                   sb, fd_rc, fdVars, countVars, scratchVars, mapped, output,
                   warnings, failures, windows, kernelVars>>

\* Classify without the S_ISDIR test
Classify_NoDirTest ==
    /\ pc = "classify"
    /\ name_rc' = name_rc
    /\ pc' = IF sb.st_size # 0
               THEN (IF drop THEN "fadvise" ELSE "fd_enter")
               ELSE "close"
    /\ UNCHANGED <<cfgVars, efVars, windowVars, bytes_left, optind, rc, fd,
                   sb, fd_rc, fdVars, countVars, scratchVars, mapped, output,
                   warnings, failures, windows, kernelVars>>

\* if (S_ISDIR(sb->st_mode)) rc = 1; else if (sb->st_size) { ... }
Classify ==
    /\ pc = "classify"
    /\ IF sb.dir
         THEN name_rc' = 1 /\ pc' = "close"
         ELSE /\ name_rc' = name_rc
              /\ pc' = IF sb.st_size # 0
                         THEN (IF drop THEN "fadvise" ELSE "fd_enter")
                         ELSE "close"
    /\ UNCHANGED <<cfgVars, efVars, windowVars, bytes_left, optind, rc, fd,
                   sb, fd_rc, fdVars, countVars, scratchVars, mapped, output,
                   warnings, failures, windows, kernelVars>>

\* rc = posix_fadvise(fd, 0, sb->st_size, POSIX_FADV_DONTNEED);
\* if (rc < 0) warn(_("failed to do posix_fadvise: %s"), name);
Fadvise ==
    /\ pc = "fadvise"
    /\ \E r \in FadviseReturns :
          /\ name_rc' = r
          /\ k_dropfail' = (r # 0)
          /\ warnings' = IF r < 0 THEN Warn("posix_fadvise") ELSE warnings
    /\ pc' = "fd_enter"
    /\ UNCHANGED <<cfgVars, efVars, windowVars, bytes_left, optind, rc, fd,
                   sb, fd_rc, fdVars, countVars, scratchVars, mapped, output,
                   failures, windows, k_resident, k_incore, k_negative,
                   k_tally>>

\* close (fd); return rc;
Close ==
    /\ pc = "close"
    /\ fd' = fd - 1
    /\ pc' = "switch"
    /\ UNCHANGED <<cfgVars, efVars, windowVars, bytes_left, optind, rc, sb,
                   name_rc, fd_rc, fdVars, countVars, scratchVars, mapped,
                   output, warnings, failures, windows, kernelVars>>

\* ------------------------------------------------------------ fincore_fd
\* WindowLen without the cap: len = file_size - file_offset
WindowLen_NoCap(file_size, offset) == file_size - offset

\* len = file_size - file_offset; if (len >= window_size) len = window_size;
WindowLen(file_size, offset) ==
    IF file_size - offset >= window_size
      THEN window_size
      ELSE file_size - offset

\* rc = fincore_fd(...): int rc = 0; file_offset = 0
FincoreFdEnter ==
    /\ pc = "fd_enter"
    /\ fd_rc' = 0
    /\ file_offset' = 0
    /\ pc' = "fd_loop"
    /\ UNCHANGED <<cfgVars, efVars, windowVars, bytes_left, optind, rc, fd,
                   sb, name_rc, len, window, countVars, scratchVars, mapped,
                   output, warnings, failures, windows, kernelVars>>

\* for (...; file_offset < file_size; ...) { window = NULL; len = ...
FdLoopTest ==
    /\ pc = "fd_loop"
    /\ IF file_offset < sb.st_size
         THEN /\ len' = WindowLen(sb.st_size, file_offset)
              /\ window' = 0
              /\ pc' = "mmap"
         ELSE /\ UNCHANGED <<len, window>>
              /\ pc' = "fd_ret"
    /\ UNCHANGED <<cfgVars, efVars, windowVars, bytes_left, optind, rc, fd,
                   sb, name_rc, fd_rc, file_offset, countVars, scratchVars,
                   mapped, output, warnings, failures, windows, kernelVars>>

\* the protection of a mapping that is always readable
MmapProt_ReadOnly == PROT_READ

\* int prot = nodes_counter? PROT_READ: 0;
MmapProt == IF collect_nodedst THEN PROT_READ ELSE PROT_NONE

\* the request mmap(window, len, prot, MAP_SHARED, fd, file_offset)
MmapRequest == [offset |-> file_offset, len |-> len, prot |-> MmapProt]

\* where the kernel places a new mapping: the lowest address not in use
FreeAddress ==
    CHOOSE a \in 1 .. Cardinality(mapped) + 1 :
        /\ \A m \in mapped : m.addr # a
        /\ \A b \in 1 .. a - 1 : \E m \in mapped : m.addr = b

\* window == MAP_FAILED: rc = -EINVAL; warn(); break;
MmapFail ==
    /\ pc = "mmap"
    /\ windows' = Append(windows, MmapRequest)
    /\ fd_rc' = -EINVAL
    /\ warnings' = Warn("mmap")
    /\ failures' = Failed("mmap")
    /\ pc' = "fd_ret"
    /\ UNCHANGED <<cfgVars, efVars, windowVars, bytes_left, optind, rc, fd,
                   sb, name_rc, fdVars, countVars, scratchVars, mapped,
                   output, kernelVars>>

\* window = mmap(...) succeeded
MmapOk ==
    /\ pc = "mmap"
    /\ windows' = Append(windows, MmapRequest)
    /\ window' = FreeAddress
    /\ mapped' = mapped \cup {[addr |-> FreeAddress, file |-> optind,
                               offset |-> file_offset, len |-> len,
                               prot |-> MmapProt]}
    /\ pc' = "mincore"
    /\ UNCHANGED <<cfgVars, efVars, windowVars, bytes_left, optind, rc, fd,
                   sb, name_rc, fd_rc, file_offset, len, countVars,
                   scratchVars, output, warnings, failures, kernelVars>>

\* Munmap advancing by one page instead of by the window's length
Munmap_PageStep ==
    /\ pc = "munmap"
    /\ mapped' = {m \in mapped : m.addr # window}
    /\ file_offset' = file_offset + PageSize
    /\ pc' = "fd_loop"
    /\ k_pages' = {}
    /\ k_touched' = <<>>
    /\ k_batch' = <<>>
    /\ UNCHANGED <<cfgVars, efVars, bytes_left, optind, rc, fd, sb, name_rc,
                   fd_rc, len, window, countVars, scratchVars, output,
                   warnings, failures, windows, kernelVars>>

\* munmap (window, len); file_offset += len
Munmap ==
    /\ pc = "munmap"
    /\ mapped' = {m \in mapped : m.addr # window}
    /\ file_offset' = file_offset + len
    /\ pc' = "fd_loop"
    /\ k_pages' = {}
    /\ k_touched' = <<>>
    /\ k_batch' = <<>>
    /\ UNCHANGED <<cfgVars, efVars, bytes_left, optind, rc, fd, sb, name_rc,
                   fd_rc, len, window, countVars, scratchVars, output,
                   warnings, failures, windows, kernelVars>>

\* return rc; and fincore_name's rc = fincore_fd(...).  The locals of
\* fincore_fd and do_mincore go out of scope.
FincoreFdReturn ==
    /\ pc = "fd_ret"
    /\ name_rc' = fd_rc
    /\ fd_rc' = 0
    /\ file_offset' = 0
    /\ len' = 0
    /\ window' = 0
    /\ original_count_incore' = 0
    /\ pc' = "close"
    /\ k_pages' = {}
    /\ k_touched' = <<>>
    /\ k_batch' = <<>>
    /\ UNCHANGED <<cfgVars, efVars, bytes_left, optind, rc, fd, sb,
                   count_incore, nodes_counter, scratchVars, mapped, output,
                   warnings, failures, windows, kernelVars>>

\* ------------------------------------------------------------ do_mincore
\* NPages leaving out the page the window ends in: n = len / ctl->pagesize
NPages_Floor(l) == l \div PageSize

\* int n = (len / ctl->pagesize) + ((len % ctl->pagesize)? 1: 0);
NPages(l) == (l \div PageSize) + (IF l % PageSize # 0 THEN 1 ELSE 0)

\* MincoreFail without fincore_fd's "if (rc) break;"
MincoreFail_NoBreak ==
    /\ pc = "mincore"
    /\ \E e \in Errnos : fd_rc' = -e
    /\ warnings' = Warn("mincore")
    /\ failures' = Failed("mincore")
    /\ pc' = "munmap"
    /\ UNCHANGED <<cfgVars, efVars, windowVars, bytes_left, optind, rc, fd,
                   sb, name_rc, fdVars, countVars, scratchVars, mapped,
                   output, windows, kernelVars>>

\* if (mincore (window, len, vec) < 0) { warn(); return -errno; }
\* and fincore_fd: if (rc) break;
MincoreFail ==
    /\ pc = "mincore"
    /\ \E e \in Errnos : fd_rc' = -e
    /\ warnings' = Warn("mincore")
    /\ failures' = Failed("mincore")
    /\ pc' = "fd_ret"
    /\ UNCHANGED <<cfgVars, efVars, windowVars, bytes_left, optind, rc, fd,
                   sb, name_rc, fdVars, countVars, scratchVars, mapped,
                   output, windows, kernelVars>>

\* the bytes mincore(2) writes for length l: (l + PAGE_SIZE - 1) / PAGE_SIZE
MincoreVecLen(l) == (l + PageSize - 1) \div PageSize

\* mincore (window, len, vec) succeeded: the kernel wrote one byte per page
\* of the window; off_t original_count_incore = *count_incore;
MincoreOk ==
    /\ pc = "mincore"
    /\ \E b \in [0 .. MincoreVecLen(len) - 1 -> VecBytes] :
          /\ vec' = [i \in DOMAIN vec |->
                        IF i < MincoreVecLen(len) THEN b[i] ELSE vec[i]]
          /\ k_pages' = {i \in DOMAIN b : b[i] \in {1, 3}}
          /\ k_resident' =
                k_resident + Cardinality({i \in DOMAIN b : b[i] \in {1, 3}})
          /\ k_incore' =
                k_incore \cup {(file_offset \div PageSize) + i :
                                  i \in {j \in DOMAIN b : b[j] \in {1, 3}}}
    /\ original_count_incore' = count_incore
    /\ k_touched' = <<>>
    /\ k_batch' = <<>>
    /\ pc' = "count"
    /\ UNCHANGED <<cfgVars, efVars, bytes_left, optind, rc, fd, sb, name_rc,
                   fd_rc, fdVars, count_incore, nodes_counter, incore_pages,
                   status, mapped, output, warnings, failures, windows,
                   k_dropfail, k_negative, k_tally>>

\* CountStep without the read of the page: the address is only stored
CountStep_NoTouch(s) ==
    LET m == s.n - 1 IN
    IF s.vec[m] % 2 = 1
      THEN [n |-> m,
            vec |-> [s.vec EXCEPT ![m] = 0],
            count |-> s.count + 1,
            pages |-> IF collect_nodedst
                        THEN [s.pages EXCEPT
                                ![s.count - original_count_incore] =
                                    <<window, PageSize * m>>]
                        ELSE s.pages,
            touched |-> s.touched]
      ELSE [s EXCEPT !.n = m]

\* one iteration of while (n > 0) { if (vec[--n] & 0x1) { ... } }, on the
\* loop's state s = [n, vec, count, pages, touched]: with nodes_counter the
\* page's address is stored in incore_pages [d] and one byte is read there
CountStep(s) ==
    LET m == s.n - 1
        d == s.count - original_count_incore
        stored == [s.pages EXCEPT ![d] = <<window, PageSize * m>>]
    IN
    IF s.vec[m] % 2 = 1
      THEN [n |-> m,
            vec |-> [s.vec EXCEPT ![m] = 0],
            count |-> s.count + 1,
            pages |-> IF collect_nodedst THEN stored ELSE s.pages,
            touched |-> IF collect_nodedst
                          THEN Append(s.touched, stored[d])
                          ELSE s.touched]
      ELSE [s EXCEPT !.n = m]

RECURSIVE CountLoop(_)
\* while (n > 0) { ... }
CountLoop(s) == IF s.n > 0 THEN CountLoop(CountStep(s)) ELSE s

\* the while loop of do_mincore; then, without nodes_counter, return 0
Count ==
    /\ pc = "count"
    /\ LET r == CountLoop([n |-> NPages(len), vec |-> vec,
                           count |-> count_incore, pages |-> incore_pages,
                           touched |-> <<>>])
       IN /\ vec' = r.vec
          /\ count_incore' = r.count
          /\ incore_pages' = r.pages
          /\ k_touched' = r.touched
    /\ IF collect_nodedst
         THEN pc' = "move_pages" /\ fd_rc' = fd_rc
         ELSE pc' = "munmap" /\ fd_rc' = 0
    /\ UNCHANGED <<cfgVars, efVars, k_pages, k_batch, bytes_left, optind, rc,
                   fd, sb, name_rc, fdVars, original_count_incore,
                   nodes_counter, status, mapped, output, warnings, failures,
                   windows, kernelVars>>

\* off_t d = *count_incore - original_count_incore;
BatchSize == count_incore - original_count_incore

\* what move_pages is given: the first (int)d entries of incore_pages
MoveBatch == [i \in 1 .. BatchSize |-> incore_pages[i - 1]]

\* MovePagesFail that warns and goes on without the breakdown: return 0
MovePagesFail_Degrade ==
    /\ pc = "move_pages"
    /\ fd_rc' = 0
    /\ warnings' = Warn("move_pages")
    /\ failures' = Failed("move_pages")
    /\ pc' = "munmap"
    /\ k_batch' = Append(k_batch, MoveBatch)
    /\ UNCHANGED <<cfgVars, efVars, k_pages, k_touched, bytes_left, optind,
                   rc, fd, sb, name_rc, fdVars, countVars, scratchVars,
                   mapped, output, windows, kernelVars>>

\* if (move_pages (0, (int)d, incore_pages, NULL, status, 0) < 0)
\*     { warn(); return -errno; }   and fincore_fd: if (rc) break;
MovePagesFail ==
    /\ pc = "move_pages"
    /\ \E e \in Errnos : fd_rc' = -e
    /\ warnings' = Warn("move_pages")
    /\ failures' = Failed("move_pages")
    /\ pc' = "fd_ret"
    /\ k_batch' = Append(k_batch, MoveBatch)
    /\ UNCHANGED <<cfgVars, efVars, k_pages, k_touched, bytes_left, optind,
                   rc, fd, sb, name_rc, fdVars, countVars, scratchVars,
                   mapped, output, windows, kernelVars>>

\* move_pages succeeded: the kernel wrote status[0 .. d-1]
MovePagesOk ==
    /\ pc = "move_pages"
    /\ \E st \in [0 .. BatchSize - 1 -> PageStatuses] :
          /\ status' = [i \in DOMAIN status |->
                           IF i < BatchSize THEN st[i] ELSE status[i]]
          /\ k_negative' =
                k_negative + Cardinality({i \in DOMAIN st : st[i] < 0})
          /\ k_tally' = [nd \in Nodes |->
                k_tally[nd] + Cardinality({i \in DOMAIN st : st[i] = nd})]
    /\ k_batch' = Append(k_batch, MoveBatch)
    /\ pc' = "tally"
    /\ UNCHANGED <<cfgVars, efVars, k_pages, k_touched, bytes_left, optind,
                   rc, fd, sb, name_rc, fd_rc, fdVars, countVars, vec,
                   incore_pages, mapped, output, warnings, failures, windows,
                   k_dropfail, k_resident, k_incore>>

\* TallyStep skipping status 0 as well: if (status [i] <= 0) continue;
TallyStep_SkipZero(counter, st) ==
    IF st <= 0 THEN counter ELSE [counter EXCEPT ![st] = @ + 1]

\* the body of for (i = 0; i < d; i++):
\* if (status [i] < 0) continue; nodes_counter [status [i]]++;
TallyStep(counter, st) ==
    IF st < 0 THEN counter ELSE [counter EXCEPT ![st] = @ + 1]

RECURSIVE TallyLoop(_, _, _)
\* for (int i = 0; i < (int)d; i++) { ... }
TallyLoop(counter, i, d) ==
    IF i < d
      THEN TallyLoop(TallyStep(counter, status[i]), i + 1, d)
      ELSE counter

\* the for loop of do_mincore; return 0
Tally ==
    /\ pc = "tally"
    /\ nodes_counter' = TallyLoop(nodes_counter, 0, BatchSize)
    /\ fd_rc' = 0
    /\ pc' = "munmap"
    /\ UNCHANGED <<cfgVars, efVars, windowVars, bytes_left, optind, rc, fd,
                   sb, name_rc, fdVars, count_incore, original_count_incore,
                   scratchVars, mapped, output, warnings, failures, windows,
                   kernelVars>>

\* ------------------------------------------------- main, after fincore_name
\* add_output_data(): one line of name, file size, pages, and node counts
OutputLine ==
    [file |-> optind, size |-> sb.st_size, pages |-> count_incore,
     res |-> count_incore * PageSize,
     nodes |-> IF collect_nodedst THEN nodes_counter ELSE ZeroNodes]

\* switch (fincore_name(...)) { case 0: add_output_data(); break;
\*   case 1: break; default: rc = EXIT_FAILURE; break; }   optind++
Switch ==
    /\ pc = "switch"
    /\ output' = IF name_rc = 0 THEN Append(output, OutputLine) ELSE output
    /\ rc' = IF name_rc \notin {0, 1} THEN EXIT_FAILURE ELSE rc
    /\ optind' = optind + 1
    /\ pc' = "main"
    /\ UNCHANGED <<cfgVars, efVars, windowVars, bytes_left, fd, sb, name_rc,
                   fd_rc, fdVars, countVars, scratchVars, mapped, warnings,
                   failures, windows, kernelVars>>

Next ==
    \/ MainNextFile
    \/ MainReturn
    \/ OpenFail
    \/ OpenOk
    \/ FstatFail
    \/ FstatOk
    \/ Classify
    \/ Fadvise
    \/ FincoreFdEnter
    \/ FdLoopTest
    \/ MmapFail
    \/ MmapOk
    \/ MincoreFail
    \/ MincoreOk
    \/ Count
    \/ MovePagesFail
    \/ MovePagesOk
    \/ Tally
    \/ Munmap
    \/ FincoreFdReturn
    \/ Close
    \/ Switch

Spec == Init /\ [][Next]_vars

\* ======================================================================
\* lsfd: the filters applied before a process or a file is collected
\* (lsfd-cmd/early-filter.c).  One struct early_filters is the state; the
\* caller is the environment and makes the calls in any order.  A string
\* is the sequence of its characters before the terminating NUL.

\* enum early_filter_type
ef_pid == 0
ef_file_path == 1

\* '\0'
NUL == 0
\* the characters of " (deleted)"
Deleted == <<32, 40, 100, 101, 108, 101, 116, 101, 100, 41>>
\* 'a', the character of the paths given to early_filters_add_file_path
PathChars == {97}
\* 'x', a character that is in none of them
OtherChar == 120

\* the pids given to early_filters_add_pid
Pids == 1 .. MaxPid
\* the pids early_filters_apply_pid is asked about
QueryPids == 0 .. MaxPid + 1
\* what memory that was not written by the program may hold
GarbagePids == 0 .. MaxPid + 1
\* the paths given to early_filters_add_file_path
FilterPaths == UNION {[1 .. k -> PathChars] : k \in 0 .. MaxPathLen}
\* what follows a filter's path in the paths asked about
Continuations ==
    {<<>>, Deleted, SubSeq(Deleted, 1, Len(Deleted) - 1),
     Deleted \o <<OtherChar>>, <<OtherChar>>, <<OtherChar>> \o Deleted}
\* the paths early_filters_apply_file_path is asked about
QueryPaths == {f \o c : f \in FilterPaths, c \in Continuations}

\* s[i] of a C string: the NUL follows the last character
CharAt(s, i) == IF i < Len(s) THEN s[i + 1] ELSE NUL

RECURSIVE StrlenFrom(_, _)
StrlenFrom(s, i) == IF CharAt(s, i) = NUL THEN i ELSE StrlenFrom(s, i + 1)
\* strlen(3)
strlen(s) == StrlenFrom(s, 0)

RECURSIVE StrncmpFrom(_, _, _, _)
StrncmpFrom(s1, s2, n, i) ==
    IF i = n THEN 0
    ELSE IF CharAt(s1, i) # CharAt(s2, i) THEN CharAt(s1, i) - CharAt(s2, i)
    ELSE IF CharAt(s1, i) = NUL THEN 0
    ELSE StrncmpFrom(s1, s2, n, i + 1)
\* strncmp(3): at most n characters are compared, none after a NUL
strncmp(s1, s2, n) == StrncmpFrom(s1, s2, n, 0)

RECURSIVE StrcmpFrom(_, _, _)
StrcmpFrom(s1, s2, i) ==
    IF CharAt(s1, i) # CharAt(s2, i) THEN CharAt(s1, i) - CharAt(s2, i)
    ELSE IF CharAt(s1, i) = NUL THEN 0
    ELSE StrcmpFrom(s1, s2, i + 1)
\* strcmp(3)
strcmp(s1, s2) == StrcmpFrom(s1, s2, 0)

\* the string at s + n, for n <= strlen(s)
StrFrom(s, n) == SubSeq(s, n + 1, Len(s))

\* new_early_filter_pid
new_early_filter_pid(pid) == [type |-> ef_pid, pid |-> pid]

\* new_early_filter_file_path
new_early_filter_file_path(file_path) ==
    [type |-> ef_file_path, file_path |-> file_path,
     file_path_len |-> strlen(file_path)]

\* no call of early_filters_apply_pid or _file_path has returned since the
\* filters last changed
NoReturn ==
    [call |-> "none", pid |-> 0, file_path |-> <<>>, ret |-> FALSE,
     crashed |-> FALSE]

\* early_filters_apply_pid (pid) returned ret
PidReturn(pid, ret) ==
    [call |-> "apply_pid", pid |-> pid, file_path |-> <<>>, ret |-> ret,
     crashed |-> FALSE]

\* early_filters_apply_pid (pid) read memory that is not mapped
PidCrash(pid) ==
    [call |-> "apply_pid", pid |-> pid, file_path |-> <<>>, ret |-> FALSE,
     crashed |-> TRUE]

\* early_filters_apply_file_path (file_path) returned ret
PathReturn(file_path, ret) ==
    [call |-> "apply_file_path", pid |-> 0, file_path |-> file_path,
     ret |-> ret, crashed |-> FALSE]

\* the process has not been killed
Running == ~ef_ret.crashed

\* pidcmp
pidcmp(pa, pb) == IF pa < pb THEN -1 ELSE IF pa = pb THEN 0 ELSE 1

RECURSIVE InsertSorted(_, _)
InsertSorted(q, x) ==
    IF q = <<>> THEN <<x>>
    ELSE IF pidcmp(x, Head(q)) <= 0 THEN <<x>> \o q
    ELSE <<Head(q)>> \o InsertSorted(Tail(q), x)

RECURSIVE SortPids(_)
\* q in the ascending order of pidcmp
SortPids(q) ==
    IF q = <<>> THEN <<>> ELSE InsertSorted(SortPids(Tail(q)), Head(q))

\* sort_pids that leaves the array as it is
sort_pids_Unsorted(arr, count) == arr

\* sort_pids: qsort(pids, count, sizeof(pid_t), pidcmp)
sort_pids(arr, count) ==
    LET q == SortPids([k \in 1 .. count |-> arr[k - 1]])
    IN [i \in DOMAIN arr |-> IF i < count THEN q[i + 1] ELSE arr[i]]

RECURSIVE FillPids(_, _, _)
\* list_for_each(ef, &early_filters->filters)
\*     if (early_filter->type == ef_pid) pids[i++] = early_filter->pid;
\* from the k-th filter on, at index i; written is what was stored so far
FillPids(k, written, i) ==
    IF k > Len(filters) THEN written
    ELSE IF filters[k].type = ef_pid
      THEN FillPids(k + 1, (i :> filters[k].pid) @@ written, i + 1)
      ELSE FillPids(k + 1, written, i)

\* the arrays of count elements that xmalloc and the loop above can leave:
\* an element the loop did not store holds whatever the memory held
FilledArrays(count) ==
    LET written == FillPids(1, <<>>, 0)
    IN {[i \in 0 .. count - 1 |-> IF i \in DOMAIN written THEN written[i]
                                    ELSE g[i]] :
           g \in [(0 .. count - 1) \ DOMAIN written -> GarbagePids]}

RECURSIVE BsearchFrom(_, _, _, _)
BsearchFrom(key, base, l, u) ==
    IF l >= u THEN -1
    ELSE LET idx == (l + u) \div 2
             c == pidcmp(key, base[idx])
         IN IF c < 0 THEN BsearchFrom(key, base, l, idx)
            ELSE IF c > 0 THEN BsearchFrom(key, base, idx + 1, u)
            ELSE idx
\* bsearch(&key, base, nmemb, sizeof(pid_t), pidcmp): the index of the
\* element found, or -1 for NULL
bsearch(key, base, nmemb) == BsearchFrom(key, base, 0, nmemb)

\* the memory bsearch reads as pids[0 .. nmemb-1]: the allocated array,
\* followed by whatever lies behind it
PidsRead(nmemb) ==
    {[i \in 0 .. nmemb - 1 |-> IF i \in DOMAIN pids.mem THEN pids.mem[i]
                                 ELSE g[i]] :
        g \in [(0 .. nmemb - 1) \ DOMAIN pids.mem -> GarbagePids]}

\* file_path_equal that accepts every path the filter's path begins
file_path_equal_Prefix(early_filter, file_path) ==
    /\ early_filter.type = ef_file_path
    /\ strncmp(early_filter.file_path, file_path,
               early_filter.file_path_len) = 0

\* file_path_equal
file_path_equal(early_filter, file_path) ==
    IF early_filter.type # ef_file_path THEN FALSE
    ELSE IF strncmp(early_filter.file_path, file_path,
                    early_filter.file_path_len) = 0
      THEN IF CharAt(file_path, early_filter.file_path_len) = NUL THEN TRUE
           ELSE strcmp(StrFrom(file_path, early_filter.file_path_len),
                       Deleted) = 0
      ELSE FALSE

RECURSIVE ApplyFrom(_, _)
ApplyFrom(k, data) ==
    IF k > Len(filters) THEN FALSE
    ELSE IF file_path_equal(filters[k], data) THEN TRUE
    ELSE ApplyFrom(k + 1, data)
\* early_filters_apply with the predicate file_path_equal, the only one it
\* is called with
early_filters_apply(data) == ApplyFrom(1, data)

\* early_filters_has_pid_filter
early_filters_has_pid_filter == n_pid_filters > 0

\* early_filters_has_file_path
early_filters_has_file_path == n_file_path_filters > 0

\* early_filters_add_pid
early_filters_add_pid ==
    /\ Running
    /\ Len(filters) < MaxFilters
    /\ \E pid \in Pids :
          filters' = Append(filters, new_early_filter_pid(pid))
    /\ n_pid_filters' = n_pid_filters + 1
    /\ k_optimized' = FALSE
    /\ ef_ret' = NoReturn
    /\ UNCHANGED <<fincoreVars, n_file_path_filters, pids>>

\* early_filters_add_file_path
early_filters_add_file_path ==
    /\ Running
    /\ Len(filters) < MaxFilters
    /\ \E file_path \in FilterPaths :
          filters' = Append(filters, new_early_filter_file_path(file_path))
    /\ n_file_path_filters' = n_file_path_filters + 1
    /\ k_optimized' = FALSE
    /\ ef_ret' = NoReturn
    /\ UNCHANGED <<fincoreVars, n_pid_filters, pids>>

\* early_filters_optimize: with a pid filter, a new array of n_pid_filters
\* elements, of any content, is filled from the list and sorted
early_filters_optimize ==
    /\ Running
    /\ IF n_pid_filters > 0
         THEN \E arr \in FilledArrays(n_pid_filters) :
                 pids' = [null |-> FALSE,
                          mem |-> sort_pids(arr, n_pid_filters)]
         ELSE pids' = pids
    /\ k_optimized' = TRUE
    /\ ef_ret' = NoReturn
    /\ UNCHANGED <<fincoreVars, filters, n_pid_filters, n_file_path_filters>>

\* early_filters_apply_pid.  bsearch reads n_pid_filters elements at pids:
\* through a null pointer the process is killed; behind the end of the
\* array it reads what lies there, or is killed
early_filters_apply_pid ==
    /\ Running
    /\ \E pid \in QueryPids :
          IF ~early_filters_has_pid_filter
            THEN ef_ret' = PidReturn(pid, TRUE)
            ELSE IF pids.null
              THEN ef_ret' = PidCrash(pid)
              ELSE \/ \E base \in PidsRead(n_pid_filters) :
                         ef_ret' = PidReturn(pid,
                            bsearch(pid, base, n_pid_filters) # -1)
                   \/ /\ n_pid_filters > Cardinality(DOMAIN pids.mem)
                      /\ ef_ret' = PidCrash(pid)
    /\ UNCHANGED <<fincoreVars, filters, n_pid_filters, n_file_path_filters,
                   pids, k_optimized>>

\* early_filters_apply_file_path
early_filters_apply_file_path ==
    /\ Running
    /\ \E file_path \in QueryPaths :
          IF ~early_filters_has_file_path
            THEN ef_ret' = PathReturn(file_path, TRUE)
            ELSE ef_ret' = PathReturn(file_path, early_filters_apply(file_path))
    /\ UNCHANGED <<fincoreVars, filters, n_pid_filters, n_file_path_filters,
                   pids, k_optimized>>

\* the filters after new_early_filters; fincore's variables play no part
\* and stay at one initial value
InitFilters ==
    /\ Init
    /\ argc = 1
    /\ ~collect_nodedst
    /\ ~drop

NextFilters ==
    \/ early_filters_add_pid
    \/ early_filters_add_file_path
    \/ early_filters_optimize
    \/ early_filters_apply_pid
    \/ early_filters_apply_file_path

SpecFilters == InitFilters /\ [][NextFilters]_vars

\* ------------------------------------------------------------ properties
\* a call failed on file i (open, fstat, mmap, mincore or move_pages)
FileFailed(i) == \E f \in failures : f.file = i

\* warn() reported this call on file i
Warned(i, call) ==
    \E k \in 1 .. Len(warnings) : warnings[k] = [file |-> i, call |-> call]

\* file i has a line in the output
HasLine(i) == \E k \in 1 .. Len(output) : output[k].file = i

RECURSIVE SumNodes(_, _)
\* counter[0] + ... + counter[k-1]
SumNodes(counter, k) ==
    IF k = 0 THEN 0 ELSE counter[k - 1] + SumNodes(counter, k - 1)

\* ceil(a / b)
CeilDiv(a, b) == (a + b - 1) \div b

\* fincore_fd has returned 0 and fincore_name has not yet returned
ScanCompleted == pc = "fd_ret" /\ fd_rc = 0

\* C1: the windows requested for a file start at offset 0, each starts where
\* the one before it ended, each has 0 < len <= window_size, and when the
\* scan completes without error their lengths add up to the file size; a
\* file of exactly one page is scanned by the one window [0, PageSize).
C1_WindowsCoverFile ==
    /\ \A k \in 1 .. Len(windows) :
          /\ windows[k].offset =
                (IF k = 1 THEN 0
                          ELSE windows[k - 1].offset + windows[k - 1].len)
          /\ 0 < windows[k].len
          /\ windows[k].len <= window_size
    /\ ScanCompleted =>
          /\ Len(windows) >= 1
          /\ windows[Len(windows)].offset + windows[Len(windows)].len
                = sb.st_size
    /\ (ScanCompleted /\ sb.st_size = PageSize) =>
          /\ Len(windows) = 1
          /\ windows[1].offset = 0
          /\ windows[1].len = PageSize

\* a completed scan of a file larger than one window, not a multiple of it
C1_Witness ==
    /\ ScanCompleted
    /\ Len(windows) = 2
    /\ windows[2].len < window_size

\* C2 (as claimed): once fincore_fd has returned, none of the mappings it
\* made for the file is still mapped.
C2_AllUnmappedOnReturn ==
    pc \in {"fd_ret", "close", "switch"} =>
        \A m \in mapped : m.file # optind

\* C3 (as claimed): at most one window is mapped at any point of a run.
C3_AtMostOneMapped == Cardinality(mapped) <= 1

\* C4: once a call has failed on a file, no further window of that file is
\* requested or queried and no line is added to the output; no line of the
\* output is ever of a file on which a call failed.
C4_FailureAbortsFile ==
    /\ [](\A k \in 1 .. Len(output) : ~FileFailed(output[k].file))
    /\ [][FileFailed(optind) =>
             /\ windows' = windows
             /\ mapped' \subseteq mapped
             /\ k_resident' = k_resident
             /\ output' = output
             /\ pc' \notin {"mmap", "mincore", "count", "move_pages", "tally"}
         ]_vars

\* a file failed in its second window, with pages already counted
C4_Witness ==
    /\ pc = "switch"
    /\ FileFailed(optind)
    /\ Len(windows) = 2
    /\ count_incore > 0

\* the line a file is due, from what the kernel reported for that file alone
ExpectedLine ==
    [file |-> optind, size |-> sb.st_size, pages |-> k_resident,
     res |-> k_resident * PageSize,
     nodes |-> IF collect_nodedst THEN k_tally ELSE ZeroNodes]

\* C5: every argument is processed, in order, whatever failed before it; a
\* file on which no call failed and which is no directory gets exactly one
\* line, appended when its processing ends, whose values are those the
\* kernel reported for that file alone; no other file gets a line.
C5_FailureIsPerFile ==
    /\ [](pc = "done" => optind = argc + 1)
    /\ [][/\ (pc = "main" /\ optind <= argc) => pc' = "open"
          /\ pc # "switch" => (output' = output /\ optind' = optind)
          /\ pc = "switch" =>
                /\ optind' = optind + 1
                /\ output' = IF ~FileFailed(optind) /\ ~sb.dir
                               THEN Append(output, ExpectedLine)
                               ELSE output
         ]_vars

\* the first file failed, the second one was scanned and has its line
C5_Witness ==
    /\ pc = "done"
    /\ FileFailed(1)
    /\ Len(output) = 1
    /\ output[1].file = 2
    /\ output[1].pages > 0

\* C6: the exit status is failure exactly when a call failed on one of the
\* files processed so far; directories and scanned files leave it alone.
C6_ExitStatus ==
    /\ rc \in {EXIT_SUCCESS, EXIT_FAILURE}
    /\ (rc = EXIT_FAILURE) <=> (\E f \in failures : f.file < optind)

\* a run that ends in failure although one of its files has its line
C6_Witness ==
    /\ pc = "done"
    /\ rc = EXIT_FAILURE
    /\ Len(output) = 1

\* C7: the pages reported for a non-empty file are at most
\* ceil(file size / page size).
C7_ResidentAtMostPages ==
    \A k \in 1 .. Len(output) :
        output[k].size > 0 =>
            output[k].pages <= CeilDiv(output[k].size, PageSize)

\* a file of more than a window, ending inside a page, wholly resident
C7_Witness ==
    \E k \in 1 .. Len(output) :
        /\ output[k].size > window_size
        /\ output[k].size % PageSize # 0
        /\ output[k].pages = CeilDiv(output[k].size, PageSize)

\* C8: with the node breakdown requested, outside the two steps between the
\* count and the tally of a window, and as long as no call failed on the
\* file, the node counts add up to the resident pages less the pages given
\* a negative status; a negative status does not fail the file.
C8_NodeTally ==
    (collect_nodedst /\ ~FileFailed(optind)
        /\ pc \notin {"move_pages", "tally", "main", "done"}) =>
        /\ SumNodes(nodes_counter, NUMA_NUM_NODES) = count_incore - k_negative
        /\ (pc = "switch" /\ ~sb.dir) => name_rc = 0

\* a scanned file with a page of negative status and pages on a node
C8_Witness ==
    /\ pc = "switch"
    /\ collect_nodedst
    /\ name_rc = 0
    /\ k_negative > 0
    /\ SumNodes(nodes_counter, NUMA_NUM_NODES) > 0

\* C9: a file on which move_pages failed has its error reported, gets no
\* line in the output, and makes the exit status failure.
C9_MigrationFailureFailsFile ==
    \A f \in failures :
        f.call = "move_pages" =>
            /\ Warned(f.file, "move_pages")
            /\ ~HasLine(f.file)
            /\ f.file < optind => rc = EXIT_FAILURE

\* move_pages failed in the second window, after a first window was tallied
C9_Witness ==
    /\ pc = "done"
    /\ [file |-> optind - 1, call |-> "move_pages"] \in failures
    /\ Len(windows) = 2
    /\ SumNodes(nodes_counter, NUMA_NUM_NODES) > 0

\* C10 (as claimed): when posix_fadvise failed on a file, a warning is
\* reported for that file.
C10_DropFailureWarned == k_dropfail => Warned(optind, "posix_fadvise")

\* fstat has filled sb for the current file, whose processing has not ended
Statted ==
    /\ pc \in {"classify", "fadvise", "fd_enter", "fd_loop", "mmap",
               "mincore", "count", "move_pages", "tally", "munmap", "fd_ret",
               "close", "switch"}
    /\ \A f \in failures : f.file = optind => f.call \notin {"open", "fstat"}

\* the file before the current one was statted, and no call failed on it
PreviousDone ==
    /\ pc = "main"
    /\ optind > 1
    /\ ~FileFailed(optind - 1)

\* the statements that map, query, migrate or unmap
WindowSteps == {"mmap", "mincore", "count", "move_pages", "tally", "munmap"}

\* C11: an empty file goes from fstat straight to close: nothing is dropped,
\* mapped, queried or migrated for it, no call fails on it, fincore_name
\* returns 0, and it gets exactly one line, with 0 pages and 0 bytes.
C11_EmptyFile ==
    /\ (Statted /\ ~sb.dir /\ sb.st_size = 0) =>
          /\ pc \in {"classify", "close", "switch"}
          /\ windows = <<>>
          /\ \A m \in mapped : m.file # optind
          /\ ~FileFailed(optind)
          /\ ~HasLine(optind)
          /\ pc = "switch" => (name_rc = 0 /\ count_incore = 0)
    /\ (PreviousDone /\ ~sb.dir /\ sb.st_size = 0) =>
          /\ Len(output) >= 1
          /\ output[Len(output)] =
                [file |-> optind - 1, size |-> 0, pages |-> 0, res |-> 0,
                 nodes |-> ZeroNodes]
          /\ Cardinality({k \in 1 .. Len(output) :
                             output[k].file = optind - 1}) = 1

\* an empty file has just had its line added, after a file that was scanned
C11_Witness ==
    /\ PreviousDone
    /\ ~sb.dir
    /\ sb.st_size = 0
    /\ optind = 3
    /\ Len(output) = 2
    /\ output[1].pages > 0

\* C12: a directory goes from fstat straight to close: nothing is dropped
\* or mapped for it, nothing is reported, no call fails on it, fincore_name
\* returns 1, it gets no line, and it leaves the exit status alone.
C12_Directory ==
    /\ (Statted /\ sb.dir) =>
          /\ pc \in {"classify", "close", "switch"}
          /\ windows = <<>>
          /\ ~k_dropfail
          /\ \A m \in mapped : m.file # optind
          /\ ~FileFailed(optind)
          /\ ~HasLine(optind)
          /\ \A k \in 1 .. Len(warnings) : warnings[k].file # optind
          /\ pc = "switch" => name_rc = 1
    /\ (PreviousDone /\ sb.dir) =>
          /\ ~HasLine(optind - 1)
          /\ \A k \in 1 .. Len(warnings) : warnings[k].file # optind - 1
          /\ rc = EXIT_FAILURE => \E f \in failures : f.file < optind - 1

\* a directory of non-zero size was skipped after a file that was scanned
C12_Witness ==
    /\ PreviousDone
    /\ sb.dir
    /\ sb.st_size > 0
    /\ optind = 3
    /\ Len(output) = 1
    /\ rc = EXIT_SUCCESS

\* the statements of a window after the while loop of do_mincore
AfterCount == {"move_pages", "tally", "munmap"}

\* C13: the loop of do_mincore looks at ceil(len / pagesize) bytes of vec,
\* as many as mincore wrote, and adds to count_incore the number of them
\* with the low bit set; over the file, count_incore is the number of pages
\* reported resident.
C13_CountsLowBits ==
    /\ pc \in WindowSteps =>
          /\ NPages(len) = CeilDiv(len, PageSize)
          /\ NPages(len) = MincoreVecLen(len)
    /\ pc \in AfterCount =>
          count_incore - original_count_incore = Cardinality(k_pages)
    /\ pc # "count" => count_incore = Cardinality(k_incore)

\* a file of three pages, the last one partial, with pages 0 and 2 resident
\* and page 1 not: the count is 2
C13_Witness ==
    /\ pc = "close"
    /\ sb.st_size = 2 * PageSize + 1
    /\ k_incore = {0, 2}
    /\ count_incore = 2

\* the protection bits p include PROT_READ
PermitsRead(p) == (p \div PROT_READ) % 2 = 1

\* the protections of the mappings requested for the current file and of
\* the windows that are mapped
ProtsInUse ==
    {windows[k].prot : k \in 1 .. Len(windows)} \cup {m.prot : m \in mapped}

\* C14 as stated: a window is mapped read-only without the node breakdown,
\* and readable with it.
C14_ReadOnlyWithoutNodes ==
    \A p \in ProtsInUse :
        IF collect_nodedst THEN PermitsRead(p) ELSE p = PROT_READ

\* C14: a window is mapped with no access at all (prot 0) without the node
\* breakdown, and read-only with it.
C14_MappingProtection ==
    \A p \in ProtsInUse :
        IF collect_nodedst THEN p = PROT_READ ELSE p = PROT_NONE

\* a window mapped without the node breakdown, and its residency queried
C14_Witness ==
    /\ ~collect_nodedst
    /\ pc = "munmap"
    /\ \E m \in mapped : m.addr = window /\ m.prot = PROT_NONE
    /\ count_incore > 0

\* C15: every batch given to move_pages holds at least one address, and
\* move_pages does not fail a file in a window without a resident page.
C15_BatchNonEmpty ==
    /\ \A k \in 1 .. Len(k_batch) : Len(k_batch[k]) > 0
    /\ (pc = "fd_ret" /\ \E f \in failures :
                            f.file = optind /\ f.call = "move_pages")
          => k_pages # {}

\* the elements of a sequence
SeqRange(q) == {q[k] : k \in 1 .. Len(q)}

\* the addresses of the pages mincore reported resident in this window
ResidentAddresses == {<<window, PageSize * i>> : i \in k_pages}

\* every address read or given to move_pages lies in a window that is
\* mapped now
AddressesMapped ==
    \A a \in SeqRange(k_touched) \cup
                UNION {SeqRange(b) : b \in SeqRange(k_batch)} :
        \E m \in mapped : m.addr = a[1] /\ a[2] < m.len

\* C16: with the node breakdown, in each window: nothing is read and no
\* request is made before mincore; after the loop every resident page of
\* the window has been read once and no request was made yet; the window is
\* unmapped only after one request, whose batch is the window's resident
\* addresses and nothing else; and whatever was read or given to move_pages
\* lies in a window that is still mapped.
C16_WindowOrder ==
    collect_nodedst =>
        /\ pc \in {"mmap", "mincore", "count"} =>
              (k_touched = <<>> /\ k_batch = <<>>)
        /\ pc \in {"move_pages", "tally", "munmap"} =>
              /\ SeqRange(k_touched) = ResidentAddresses
              /\ Len(k_touched) = Cardinality(k_pages)
        /\ pc = "move_pages" => k_batch = <<>>
        /\ pc \in {"tally", "munmap"} => Len(k_batch) = 1
        /\ \A k \in 1 .. Len(k_batch) :
              /\ k = 1
              /\ SeqRange(k_batch[k]) = ResidentAddresses
              /\ Len(k_batch[k]) = Cardinality(k_pages)
        /\ AddressesMapped

\* the second window of a file is about to be unmapped; it has one resident
\* page, the first had two, so incore_pages [1] is left from the first
C16_Witness ==
    /\ collect_nodedst
    /\ pc = "munmap"
    /\ file_offset = window_size
    /\ k_incore = {0, 1, 2}
    /\ k_pages = {0}
    /\ Len(k_batch) = 1
    /\ incore_pages[1] # NULL

\* the indexes of the buffers vec, incore_pages and status
BufferIndexes == 0 .. N_PAGES_IN_WINDOW - 1

\* C17: a window has between 1 and N_PAGES_IN_WINDOW pages and a batch at
\* most as many addresses as the window has pages, so the indexes used on
\* vec (below the number of pages), on incore_pages and on status (below
\* the batch size) are indexes of these buffers.
C17_BufferBounds ==
    /\ DOMAIN vec = BufferIndexes
    /\ DOMAIN incore_pages = BufferIndexes
    /\ DOMAIN status = BufferIndexes
    /\ pc \in WindowSteps =>
          /\ NPages(len) \in 1 .. N_PAGES_IN_WINDOW
          /\ MincoreVecLen(len) <= N_PAGES_IN_WINDOW
          /\ 0 .. NPages(len) - 1 \subseteq BufferIndexes
          /\ k_pages \subseteq BufferIndexes
    /\ pc \in AfterCount =>
          /\ BatchSize \in 0 .. NPages(len)
          /\ 0 .. BatchSize - 1 \subseteq BufferIndexes
    /\ \A k \in 1 .. Len(k_batch) : Len(k_batch[k]) <= N_PAGES_IN_WINDOW

\* a full window with every page resident: the batch fills incore_pages
C17_Witness ==
    /\ collect_nodedst
    /\ pc = "tally"
    /\ NPages(len) = N_PAGES_IN_WINDOW
    /\ BatchSize = N_PAGES_IN_WINDOW
    /\ Len(k_batch[1]) = N_PAGES_IN_WINDOW

\* the pids given to early_filters_add_pid so far, in order
AddedPids ==
    [k \in {j \in 1 .. Len(filters) : filters[j].type = ef_pid} |->
        filters[k].pid]

\* the paths given to early_filters_add_file_path so far
AddedPaths ==
    {filters[k].file_path :
        k \in {j \in 1 .. Len(filters) : filters[j].type = ef_file_path}}

\* how many times x is among the values of the function f
Occurrences(f, x) == Cardinality({i \in DOMAIN f : f[i] = x})

\* C18: asked after early_filters_optimize, with nothing added since,
\* early_filters_apply_pid returns: it says true when no pid was added, and
\* otherwise true exactly for the pids added, whatever paths were added.
C18_ApplyPid ==
    (ef_ret.call = "apply_pid" /\ k_optimized) =>
        /\ ~ef_ret.crashed
        /\ ef_ret.ret =
              (DOMAIN AddedPids = {}
                 \/ \E k \in DOMAIN AddedPids : AddedPids[k] = ef_ret.pid)

\* pids were added in descending order, with a path between them, and
\* after optimize the first one added is found
C18_Witness ==
    /\ ef_ret.call = "apply_pid"
    /\ k_optimized
    /\ Len(filters) = 3
    /\ filters[1].type = ef_pid
    /\ filters[2].type = ef_file_path
    /\ filters[3].type = ef_pid
    /\ filters[1].pid > filters[3].pid
    /\ ef_ret.pid = filters[1].pid
    /\ ef_ret.ret

\* C19: early_filters_apply_file_path says true when no path was added,
\* and otherwise true exactly for a path added and for a path added
\* followed by " (deleted)".
C19_ApplyFilePath ==
    ef_ret.call = "apply_file_path" =>
        /\ ~ef_ret.crashed
        /\ ef_ret.ret =
              (AddedPaths = {}
                 \/ \E f \in AddedPaths :
                       \/ ef_ret.file_path = f
                       \/ ef_ret.file_path = f \o Deleted)

\* with a pid filter and the path "a" added, "a (deleted)" is accepted
C19_Witness ==
    /\ ef_ret.call = "apply_file_path"
    /\ n_pid_filters > 0
    /\ AddedPaths = {<<97>>}
    /\ ef_ret.file_path = <<97>> \o Deleted
    /\ ef_ret.ret

\* C20: once early_filters_optimize has made the array, pids holds
\* n_pid_filters elements, in ascending order, the pids added so far with
\* their multiplicities, and early_filters_apply_pid reads no memory behind
\* it and finds every pid added.
C20_PidsInSync ==
    ~pids.null =>
        /\ DOMAIN pids.mem = 0 .. n_pid_filters - 1
        /\ \A i, j \in DOMAIN pids.mem : i < j => pids.mem[i] <= pids.mem[j]
        /\ \A x \in GarbagePids :
              Occurrences(pids.mem, x) = Occurrences(AddedPids, x)
        /\ ef_ret.call = "apply_pid" =>
              /\ ~ef_ret.crashed
              /\ ef_ret.ret =
                    (\E k \in DOMAIN AddedPids : AddedPids[k] = ef_ret.pid)

====
